---- MODULE Spec2Model ----
(***************************************************************************)
(* Video ingestion (handlerUploadVideo) and the read path                  *)
(* (dbVideoToSignedVideo) of the tubely server.                            *)
(*                                                                         *)
(* Strings are sequences of tokens.  The separators the code looks for or  *)
(* inserts ("," and "/") and the hex digits are tokens of their own; a     *)
(* literal the code never inspects ("landscape", a bucket name) is one     *)
(* token.  A *string is a record [nil, val].                               *)
(***************************************************************************)
EXTENDS Integers, Sequences, FiniteSets, TLC

VARIABLES
    cfg,        \* apiConfig: s3Bucket, s3CfDistribution
    db,         \* cfg.db: video id -> database.Video
    disk,       \* the file system: path -> contents
    s3,         \* the object store: <<bucket, key>> -> object
    req,        \* one record per run of handlerUploadVideo
    lastRead,   \* the last call of dbVideoToSignedVideo: argument and results
    thumb,      \* the run of handlerUploadThumbnail
    assets      \* the assets directory: path -> bytes

vars == <<cfg, db, disk, s3, req, lastRead, thumb, assets>>

----------------------------------------------------------------------------
(* Bounds of the model *)

\* runs of handlerUploadVideo, their steps interleaved when there are several
NumReqs == 1
\* rand.Read yields one of the byte sources 0..MaxRand
MaxRand == 1

Reqs == 1..NumReqs

----------------------------------------------------------------------------
(* Strings *)

NilStr == [nil |-> TRUE, val |-> <<>>]
Ptr(s) == [nil |-> FALSE, val |-> s]

\* fmt.Sprintf("%s/%s", a, b)
SprintfSlash(a, b) == a \o <<"/">> \o b

\* strings.Index(s, sep) for a one-token sep, 1-based; 0 when absent
IndexOf(s, sep) ==
    IF \E i \in 1..Len(s) : s[i] = sep
    THEN CHOOSE i \in 1..Len(s) : s[i] = sep /\ \A j \in 1..(i - 1) : s[j] # sep
    ELSE 0

\* strings.Split(s, sep): the substrings between the separators, empty ones kept
RECURSIVE Split(_, _)
Split(s, sep) ==
    LET i == IndexOf(s, sep) IN
    IF i = 0 THEN <<s>>
    ELSE <<SubSeq(s, 1, i - 1)>> \o Split(SubSeq(s, i + 1, Len(s)), sep)

HexDigits == <<"0", "1", "2", "3", "4", "5", "6", "7",
               "8", "9", "a", "b", "c", "d", "e", "f">>

\* hex.EncodeToString: two lower-case digits per byte, high nibble first
RECURSIVE HexEncodeToString(_)
HexEncodeToString(bytes) ==
    IF bytes = <<>> THEN <<>>
    ELSE <<HexDigits[(Head(bytes) \div 16) + 1], HexDigits[(Head(bytes) % 16) + 1]>>
         \o HexEncodeToString(Tail(bytes))

----------------------------------------------------------------------------
(* float32 arithmetic on positive normal numbers.  A float32 is <<m, e>>,  *)
(* 2^23 <= m < 2^24, of value m * 2^e.                                     *)

Two23 == 8388608
Two24 == 16777216
Two25 == 33554432

RECURSIVE Pow2(_)
Pow2(n) == IF n = 0 THEN 1 ELSE 2 * Pow2(n - 1)

\* The float32 nearest to (q + r/d) * 2^e, ties to even; sticky: a discarded
\* bit was set.  Needs q >= 1 or r >= 1, r < d.
RECURSIVE F32Norm(_, _, _, _, _)
F32Norm(q, r, d, e, sticky) ==
    IF q < Two24
    THEN F32Norm(2 * q + ((2 * r) \div d), (2 * r) % d, d, e - 1, sticky)
    ELSE IF q >= Two25
    THEN F32Norm(q \div 2, r, d, e + 1, sticky \/ q % 2 = 1)
    ELSE LET m  == q \div 2
             up == q % 2 = 1 /\ (sticky \/ r # 0 \/ m % 2 = 1)
             m1 == IF up THEN m + 1 ELSE m
         IN  IF m1 = Two24 THEN <<Two23, e + 2>> ELSE <<m1, e + 1>>

\* the float32 nearest to n/d
F32Rat(n, d) == F32Norm(n \div d, n % d, d, 0, FALSE)

\* float32(i) for an int i > 0
F32FromInt(i) == F32Rat(i, 1)

\* x / y
F32Div(x, y) == F32Norm(x[1] \div y[1], x[1] % y[1], y[1], x[2] - y[2], FALSE)

\* x + y
F32Add(x, y) ==
    LET e == IF x[2] < y[2] THEN x[2] ELSE y[2]
    IN  F32Norm(x[1] * Pow2(x[2] - e) + y[1] * Pow2(y[2] - e), 0, 1, e, FALSE)

\* x - y, for x > y
F32Sub(x, y) ==
    LET e == IF x[2] < y[2] THEN x[2] ELSE y[2]
    IN  F32Norm(x[1] * Pow2(x[2] - e) - y[1] * Pow2(y[2] - e), 0, 1, e, FALSE)

\* x <= y
F32Le(x, y) == x[2] < y[2] \/ (x[2] = y[2] /\ x[1] <= y[1])

----------------------------------------------------------------------------
(* The reference codec of the read path *)

\* s3.NewPresignClient(...).PresignGetObject(bucket, key, expires): the URL
\* on success
PresignedURL(bucket, key, expireTime) ==
    <<"https://">> \o bucket \o <<".s3/">> \o key \o <<"?X-Amz-Expires=", expireTime>>

\* generatePresignedURL(s3Client, bucket, key, expireTime); signOk: whether
\* PresignGetObject succeeds
generatePresignedURL(bucket, key, expireTime, signOk) ==
    IF signOk
    THEN [url |-> PresignedURL(bucket, key, expireTime), err |-> FALSE]
    ELSE [url |-> <<>>, err |-> TRUE]

\* dbVideoToSignedVideo with the length test weakened to "fewer than two parts"
dbVideoToSignedVideoAtLeastTwo(video, signOk) ==
    IF video.VideoURL.nil
    THEN [video |-> video, err |-> FALSE, presign |-> <<>>]
    ELSE LET videoUrlSlice == Split(video.VideoURL.val, ",") IN
         IF Len(videoUrlSlice) < 2
         THEN [video |-> video, err |-> FALSE, presign |-> <<>>]
         ELSE LET bucket    == videoUrlSlice[1]
                  key       == videoUrlSlice[2]
                  presigned == generatePresignedURL(bucket, key, "3m", signOk)
                  asked     == <<[bucket |-> bucket, key |-> key, expires |-> "3m"]>>
              IN  IF presigned.err
                  THEN [video |-> video, err |-> TRUE, presign |-> asked]
                  ELSE [video   |-> [video EXCEPT !.VideoURL = Ptr(presigned.url)],
                        err     |-> FALSE,
                        presign |-> asked]

\* dbVideoToSignedVideo(video): the returned video, whether an error is
\* returned, and the signed-URL requests made on the way
dbVideoToSignedVideo(video, signOk) ==
    IF video.VideoURL.nil
    THEN [video |-> video, err |-> FALSE, presign |-> <<>>]
    ELSE LET videoUrlSlice == Split(video.VideoURL.val, ",") IN
         IF Len(videoUrlSlice) # 2
         THEN [video |-> video, err |-> FALSE, presign |-> <<>>]
         ELSE LET bucket    == videoUrlSlice[1]
                  key       == videoUrlSlice[2]
                  presigned == generatePresignedURL(bucket, key, "3m", signOk)
                  asked     == <<[bucket |-> bucket, key |-> key, expires |-> "3m"]>>
              IN  IF presigned.err
                  THEN [video |-> video, err |-> TRUE, presign |-> asked]
                  ELSE [video   |-> [video EXCEPT !.VideoURL = Ptr(presigned.url)],
                        err     |-> FALSE,
                        presign |-> asked]

----------------------------------------------------------------------------
(* The media prober and the transcoder *)

\* the anonymous struct of result.Streams
Stream(w, h) == [Width |-> w, Height |-> h]

\* within(ratio, target, tolerance)
within(ratio, target, tolerance) ==
    /\ F32Le(F32Sub(target, tolerance), ratio)
    /\ F32Le(ratio, F32Add(target, tolerance))

\* the classification at the end of getVideoAspectRatio, width and height > 0
classifyRatio(width, height) ==
    LET ratio == F32Div(F32FromInt(width), F32FromInt(height)) IN
    IF within(ratio, F32Rat(16, 9), F32Rat(1, 100)) THEN "16:9"
    ELSE IF within(ratio, F32Rat(9, 16), F32Rat(1, 100)) THEN "9:16"
    ELSE "other"

\* getVideoAspectRatio with the error of cmd.Run dropped
getVideoAspectRatioRunErrorDropped(tool, streams) ==
    IF tool = "bad_json" THEN [aspectRatio |-> "", err |-> "failed to parse ffprobe output"]
    ELSE IF Len(streams) = 0 THEN [aspectRatio |-> "", err |-> "no video streams found in file"]
    ELSE LET stream == streams[1] IN
         IF stream.Width = 0 \/ stream.Height = 0
         THEN [aspectRatio |-> "", err |-> "invalid video dimensions"]
         ELSE [aspectRatio |-> classifyRatio(stream.Width, stream.Height), err |-> ""]

\* getVideoAspectRatio with the streams counted before the errors of
\* cmd.Run and json.Unmarshal are looked at
getVideoAspectRatioStreamsFirst(tool, streams) ==
    IF Len(streams) = 0 THEN [aspectRatio |-> "", err |-> "no video streams found in file"]
    ELSE IF tool = "exec_fail" THEN [aspectRatio |-> "", err |-> "failed to run ffprobe"]
    ELSE IF tool = "bad_json" THEN [aspectRatio |-> "", err |-> "failed to parse ffprobe output"]
    ELSE LET stream == streams[1] IN
         IF stream.Width = 0 \/ stream.Height = 0
         THEN [aspectRatio |-> "", err |-> "invalid video dimensions"]
         ELSE [aspectRatio |-> classifyRatio(stream.Width, stream.Height), err |-> ""]

\* getVideoAspectRatio(filePath).  tool: how ffprobe ended ("exec_fail": it
\* could not run or exited abnormally, "bad_json": its output does not parse,
\* "ok"); streams: the streams its output lists.
getVideoAspectRatio(tool, streams) ==
    IF tool = "exec_fail" THEN [aspectRatio |-> "", err |-> "failed to run ffprobe"]
    ELSE IF tool = "bad_json" THEN [aspectRatio |-> "", err |-> "failed to parse ffprobe output"]
    ELSE IF Len(streams) = 0 THEN [aspectRatio |-> "", err |-> "no video streams found in file"]
    ELSE LET stream == streams[1] IN
         IF stream.Width = 0 \/ stream.Height = 0
         THEN [aspectRatio |-> "", err |-> "invalid video dimensions"]
         ELSE [aspectRatio |-> classifyRatio(stream.Width, stream.Height), err |-> ""]

\* the switch on aspectRatio in handlerUploadVideo
aspectRatioPrefix(aspectRatio) ==
    IF aspectRatio = "16:9" THEN "landscape"
    ELSE IF aspectRatio = "9:16" THEN "portrait"
    ELSE "other"

\* the length of fileKeyBytes
KeyLen == 32

\* fileKeyHexString
fileKeyHexString(prefix, fileKeyBytes) ==
    SprintfSlash(<<prefix>>, HexEncodeToString(fileKeyBytes))

\* what rand.Read may fill fileKeyBytes with: KeyLen bytes
RandByte(k) == (k * 171) % 256
RandSources == { [i \in 1..KeyLen |-> RandByte(k)] : k \in 0..MaxRand }

\* the contents of a file: what it is and the streams it holds
File(kind, streams) == [kind |-> kind, streams |-> streams]

EmptyMap == [x \in {} |-> <<>>]
WriteFile(d, path, content) == (path :> content) @@ d
\* os.Remove(path): an error, which every caller drops, when path does not exist
osRemove(d, path) == [p \in (DOMAIN d) \ {path} |-> d[p]]

\* processVideoForFastStart(filepath): ffmpeg ends "ok" (the output is
\* written), "fail_nofile" (it failed before opening the output) or
\* "fail_partial" (it failed after it had begun writing the output)
processVideoForFastStart(d, filepath, ffmpeg) ==
    LET output == filepath \o <<".processing">> IN
    IF ffmpeg = "ok"
    THEN [disk |-> WriteFile(d, output, File("faststart", d[filepath].streams)),
          path |-> output, err |-> FALSE]
    ELSE IF ffmpeg = "fail_partial"
    THEN [disk |-> WriteFile(d, output, File("partial", d[filepath].streams)),
          path |-> <<>>, err |-> TRUE]
    ELSE [disk |-> d, path |-> <<>>, err |-> TRUE]

----------------------------------------------------------------------------
(* Collaborators: the request, the auth package, the metadata store *)

Users == {"u1", "u2"}
VideoIDs == {"v1"}

\* r.PathValue("videoID")
VideoIdStrings == {"v1", "v9", "not-a-uuid"}
\* uuid.Parse
uuidParse(s) == [id |-> s, err |-> s = "not-a-uuid"]

\* the Authorization header: absent (""), a token that does not validate,
\* or the token of a user
Tokens == {"", "bad", "jwt-u1", "jwt-u2"}
\* auth.GetBearerToken
GetBearerToken(token) == [token |-> token, err |-> token = ""]
\* auth.ValidateJWT
ValidateJWT(token) ==
    IF token = "jwt-u1" THEN [userId |-> "u1", err |-> FALSE]
    ELSE IF token = "jwt-u2" THEN [userId |-> "u2", err |-> FALSE]
    ELSE [userId |-> "", err |-> TRUE]

\* the Content-Type of the "video" part
ContentTypes == {"video/mp4", "Video/MP4; codecs=avc1", "video/webm", ""}
\* mime.ParseMediaType: the media type in lower case, parameters split off;
\* an error for an empty header
mimeParseMediaType(v) ==
    IF v = "" THEN [mediatype |-> "", err |-> TRUE]
    ELSE IF v \in {"video/mp4", "Video/MP4; codecs=avc1"}
    THEN [mediatype |-> "video/mp4", err |-> FALSE]
    ELSE [mediatype |-> v, err |-> FALSE]

\* the test of mimeType accepting every video type
acceptedMimeTypeAnyVideo(mimeType) == mimeType \in {"video/mp4", "video/webm"}

\* the test of mimeType in handlerUploadVideo
acceptedMimeType(mimeType) == mimeType = "video/mp4"

\* database.Video
Video(id, user, videoURL, thumbnailURL) ==
    [ID |-> id, UserID |-> user, VideoURL |-> videoURL, ThumbnailURL |-> thumbnailURL]
NoVideo == Video("", "", NilStr, NilStr)

\* cfg.db.GetVideo
dbGetVideo(d, id) ==
    IF id \in DOMAIN d THEN [video |-> d[id], err |-> FALSE]
    ELSE [video |-> NoVideo, err |-> TRUE]

\* cfg.db.UpdateVideo: the row is replaced by the video given, or, on an
\* error, left as it is
dbUpdateVideo(d, video, ok) ==
    IF ok THEN [d EXCEPT ![video.ID] = video] ELSE d

\* what reference fields the store may hold before any run: none, values of
\* other shapes, and references
InitialRefs ==
    { NilStr,
      Ptr(<<"legacy">>),
      Ptr(<<"b", ",", "k">>),
      Ptr(<<",", "k">>),
      Ptr(<<"b", ",">>),
      Ptr(<<",">>),
      Ptr(<<"a", ",", "b", ",", "c">>) }

\* the uploads, each the streams the file holds: of the runs of Spec
Uploads ==
    { <<>>,
      <<Stream(1920, 1080)>>,
      <<Stream(1080, 1920)>>,
      <<Stream(1000, 1000)>>,
      <<Stream(0, 1080)>>,
      <<Stream(1920, 0)>>,
      <<Stream(0, 0), Stream(1920, 1080)>> }

\* of the run of SpecRead: more geometries, among them ratios at and next to the
\* ends of the two tolerance intervals
UploadsOne ==
    Uploads \cup
    { <<Stream(1609, 900)>>, <<Stream(1591, 900)>>,
      <<Stream(229, 400)>>, <<Stream(221, 400)>>,
      <<Stream(16099, 9000)>>,
      <<Stream(32736, 18311)>> }

\* the configuration: cfg.s3Bucket, cfg.s3CfDistribution
Config == [s3Bucket |-> <<"b">>, s3CfDistribution |-> <<"d">>]

----------------------------------------------------------------------------
(* handlerUploadVideo *)

NewReq ==
    [pc |-> "start", videoId |-> "", userId |-> "", video |-> NoVideo,
     contentType |-> "unset", mimeType |-> "", upload |-> <<>>,
     tempFile |-> <<>>, processedPath |-> <<>>, ffmpeg |-> "none",
     probe |-> "none", aspectRatio |-> "", key |-> <<>>,
     put |-> <<>>, update |-> <<>>, defers |-> <<>>, removed |-> <<>>,
     status |-> 0, msg |-> "", pathValue |-> "", probeErr |-> "",
     resp |-> <<>>, aborted |-> FALSE]

\* a deferred call
Defer(call, arg) == [call |-> call, arg |-> arg]

\* the deferred calls run at return, last registered first
RECURSIVE RunDefers(_, _)
RunDefers(d, defers) ==
    IF defers = <<>> THEN d
    ELSE LET c == defers[Len(defers)]
             rest == SubSeq(defers, 1, Len(defers) - 1)
         IN  RunDefers(IF c.call = "os.Remove" THEN osRemove(d, c.arg) ELSE d, rest)

\* the paths os.Remove is called on at return, in the order of the calls
RECURSIVE RemoveCalls(_)
RemoveCalls(defers) ==
    IF defers = <<>> THEN <<>>
    ELSE LET c == defers[Len(defers)]
             rest == SubSeq(defers, 1, Len(defers) - 1)
         IN  (IF c.call = "os.Remove" THEN <<c.arg>> ELSE <<>>) \o RemoveCalls(rest)

\* respondWithError / respondWithJSON followed by return: run rq is over.
\* rq.resp: the status codes written to the response, in order
Return(r, rq, d, code, msg) ==
    /\ req' = [req EXCEPT ![r] = [rq EXCEPT !.pc = "done", !.status = code,
                                            !.msg = msg, !.defers = <<>>,
                                            !.resp = @ \o <<code>>,
                                            !.removed = RemoveCalls(rq.defers)]]
    /\ disk' = RunDefers(d, rq.defers)

\* the run goes on at pc
Goto(r, rq, pc) == req' = [req EXCEPT ![r] = [rq EXCEPT !.pc = pc]]

\* os.CreateTemp("", "tubely-upload.mp4"): a name no other file has
TempName(r) == <<"/tmp/tubely-upload.mp4", ToString(r)>>

\* lines 21-39: the video id and the caller
Authenticate(r) ==
    /\ req[r].pc = "start"
    /\ \E videoIdString \in VideoIdStrings, header \in Tokens :
         LET videoId == uuidParse(videoIdString)
             token   == GetBearerToken(header)
             user    == ValidateJWT(token.token)
             rq      == [req[r] EXCEPT !.pathValue = videoIdString]
         IN  IF videoId.err THEN Return(r, rq, disk, 400, "Invalid video ID")
             ELSE IF token.err THEN Return(r, rq, disk, 401, "Couldn't find JWT")
             ELSE IF user.err THEN Return(r, rq, disk, 401, "Couldn't validate JWT")
             ELSE /\ Goto(r, [rq EXCEPT !.videoId = videoId.id,
                                        !.userId = user.userId], "authed")
                  /\ disk' = disk
    /\ UNCHANGED <<thumb, assets, cfg, db, s3, lastRead>>

\* GetVideo without the comparison of video.UserID and userID
GetVideoAnyCaller(r) ==
    /\ req[r].pc = "authed"
    /\ LET got == dbGetVideo(db, req[r].videoId) IN
       IF got.err
       THEN Return(r, req[r], disk, 500, "Couldn't get video metadata")
       ELSE /\ Goto(r, [req[r] EXCEPT !.video = got.video], "loaded")
            /\ disk' = disk
    /\ UNCHANGED <<thumb, assets, cfg, db, s3, lastRead>>

\* lines 44-52: the record and its owner
GetVideo(r) ==
    /\ req[r].pc = "authed"
    /\ LET got == dbGetVideo(db, req[r].videoId) IN
       IF got.err
       THEN Return(r, req[r], disk, 500, "Couldn't get video metadata")
       ELSE IF got.video.UserID # req[r].userId
       THEN Return(r, [req[r] EXCEPT !.video = got.video], disk, 401,
                   "You are not the owner of this video")
       ELSE /\ Goto(r, [req[r] EXCEPT !.video = got.video], "loaded")
            /\ disk' = disk
    /\ UNCHANGED <<thumb, assets, cfg, db, s3, lastRead>>

\* lines 54-69: the uploaded part and its media type
FormFile(r) ==
    /\ req[r].pc = "loaded"
    /\ \/ Return(r, req[r], disk, 400, "Couldn't get video file")
       \/ \E contentType \in ContentTypes :
            LET parsed == mimeParseMediaType(contentType)
                rq == [req[r] EXCEPT !.contentType = contentType,
                                     !.mimeType = parsed.mediatype,
                                     !.defers = <<Defer("Close", <<"multipartFile">>)>>]
            IN  IF parsed.err
                THEN Return(r, rq, disk, 400, "Couldn't parse video file media type")
                ELSE IF ~acceptedMimeType(parsed.mediatype)
                THEN Return(r, rq, disk, 400,
                            "Invalid video file type, only mp4 is allowed")
                ELSE Goto(r, rq, "typed") /\ disk' = disk
    /\ UNCHANGED <<thumb, assets, cfg, db, s3, lastRead>>

\* CreateTemp without the deferred os.Remove of the staged file
CreateTempNotRemoved(r) ==
    /\ req[r].pc = "typed"
    /\ \/ Return(r, req[r], disk, 500, "Couldn't create temporary file")
       \/ LET name == TempName(r) IN
          /\ name \notin DOMAIN disk
          /\ disk' = WriteFile(disk, name, File("empty", <<>>))
          /\ Goto(r, [req[r] EXCEPT !.tempFile = name,
                                    !.defers = @ \o <<Defer("Close", name)>>],
                  "created")
    /\ UNCHANGED <<thumb, assets, cfg, db, s3, lastRead>>

\* lines 71-77: the staged file is created and registered for removal
CreateTemp(r) ==
    /\ req[r].pc = "typed"
    /\ \/ Return(r, req[r], disk, 500, "Couldn't create temporary file")
       \/ LET name == TempName(r) IN
          /\ name \notin DOMAIN disk
          /\ disk' = WriteFile(disk, name, File("empty", <<>>))
          /\ Goto(r, [req[r] EXCEPT !.tempFile = name,
                                    !.defers = @ \o <<Defer("os.Remove", name),
                                                      Defer("Close", name)>>],
                  "created")
    /\ UNCHANGED <<thumb, assets, cfg, db, s3, lastRead>>

\* lines 79-89: the upload, one of uploads, is copied into the staged file
CopyUpload(r, uploads) ==
    /\ req[r].pc = "created"
    /\ \E upload \in uploads :
         LET rq == [req[r] EXCEPT !.upload = upload] IN
         \/ Return(r, rq, WriteFile(disk, rq.tempFile, File("partial", upload)),
                   500, "Couldn't copy video file to temporary file")
         \/ Return(r, rq, WriteFile(disk, rq.tempFile, File("raw", upload)),
                   500, "Could not reset file pointer")
         \/ /\ disk' = WriteFile(disk, rq.tempFile, File("raw", upload))
            /\ Goto(r, rq, "staged")
    /\ UNCHANGED <<thumb, assets, cfg, db, s3, lastRead>>

\* lines 91-96: the transcoder; its output is registered for removal once it
\* has succeeded
ProcessVideo(r) ==
    /\ req[r].pc = "staged"
    /\ \E ffmpeg \in {"ok", "fail_nofile", "fail_partial"} :
         LET done == processVideoForFastStart(disk, req[r].tempFile, ffmpeg)
             rq   == [req[r] EXCEPT !.ffmpeg = ffmpeg]
         IN  IF done.err
             THEN Return(r, rq, done.disk, 500, "Couldn't process video for fast start")
             ELSE /\ disk' = done.disk
                  /\ Goto(r, [rq EXCEPT !.processedPath = done.path,
                                        !.defers = @ \o <<Defer("os.Remove", done.path)>>],
                          "processed")
    /\ UNCHANGED <<thumb, assets, cfg, db, s3, lastRead>>

\* lines 98-102: the prober, run on the processed file
ProbeVideo(r) ==
    /\ req[r].pc = "processed"
    /\ \E tool \in {"ok", "exec_fail", "bad_json"} :
         LET got == getVideoAspectRatio(tool, disk[req[r].processedPath].streams)
             rq  == [req[r] EXCEPT !.probe = tool, !.probeErr = got.err]
         IN  IF got.err # ""
             THEN Return(r, rq, disk, 500, "Couldn't get video aspect ratio")
             ELSE /\ Goto(r, [rq EXCEPT !.aspectRatio = got.aspectRatio], "probed")
                  /\ disk' = disk
    /\ UNCHANGED <<thumb, assets, cfg, db, s3, lastRead>>

\* lines 104-121: the storage key; the processed file is opened
DeriveKey(r) ==
    /\ req[r].pc = "probed"
    /\ \E fileKeyBytes \in RandSources :
         LET rq == [req[r] EXCEPT !.key =
                       fileKeyHexString(aspectRatioPrefix(req[r].aspectRatio),
                                        fileKeyBytes)]
         IN  \/ Return(r, rq, disk, 500, "Couldn't open processed video file")
             \/ /\ Goto(r, [rq EXCEPT !.defers =
                               @ \o <<Defer("Close", req[r].processedPath)>>], "opened")
                /\ disk' = disk
    /\ UNCHANGED <<thumb, assets, cfg, db, s3, lastRead>>

\* s3.PutObjectInput
PutObjectInput(bucket, key, body, contentType) ==
    [Bucket |-> bucket, Key |-> key, Body |-> body, ContentType |-> contentType]

\* the effect of a PutObject that succeeds: the object is stored under
\* <<Bucket, Key>>, in place of any object already there
s3Put(store, input) ==
    (<<input.Bucket, input.Key>> :>
        [Body |-> input.Body, ContentType |-> input.ContentType]) @@ store

\* PutObject with the staged file as Body
PutObjectStaged(r) ==
    /\ req[r].pc = "opened"
    /\ LET input == PutObjectInput(cfg.s3Bucket, req[r].key,
                                   disk[req[r].tempFile], req[r].mimeType)
       IN  \/ /\ Return(r, [req[r] EXCEPT !.put = @ \o <<[input |-> input, ok |-> FALSE]>>],
                        disk, 500, "Couldn't upload video to S3")
              /\ s3' = s3
           \/ /\ ~req[r].aborted
              /\ s3' = s3Put(s3, input)
              /\ Goto(r, [req[r] EXCEPT !.put = @ \o <<[input |-> input, ok |-> TRUE]>>],
                      "uploaded")
              /\ disk' = disk
    /\ UNCHANGED <<thumb, assets, cfg, db, lastRead>>

\* lines 123-132: the upload, which fails once the context of the request is
\* cancelled.  req[r].put: the calls of PutObject and how each ended
PutObject(r) ==
    /\ req[r].pc = "opened"
    /\ LET input == PutObjectInput(cfg.s3Bucket, req[r].key,
                                   disk[req[r].processedPath], req[r].mimeType)
       IN  \/ /\ Return(r, [req[r] EXCEPT !.put = @ \o <<[input |-> input, ok |-> FALSE]>>],
                        disk, 500, "Couldn't upload video to S3")
              /\ s3' = s3
           \/ /\ ~req[r].aborted
              /\ s3' = s3Put(s3, input)
              /\ Goto(r, [req[r] EXCEPT !.put = @ \o <<[input |-> input, ok |-> TRUE]>>],
                      "uploaded")
              /\ disk' = disk
    /\ UNCHANGED <<thumb, assets, cfg, db, lastRead>>

\* line 134: the value stored in video.VideoURL
vidUrl(config, key) == SprintfSlash(config.s3CfDistribution, key)

\* UpdateVideo with the uploaded object deleted when the update fails
UpdateVideoCompensating(r) ==
    /\ req[r].pc = "uploaded"
    /\ LET video == [req[r].video EXCEPT !.VideoURL = Ptr(vidUrl(cfg, req[r].key))] IN
       \E ok \in BOOLEAN :
         LET rq == [req[r] EXCEPT !.video = video,
                                  !.update = @ \o <<[video |-> video, ok |-> ok]>>]
         IN  /\ db' = dbUpdateVideo(db, video, ok)
             /\ IF ok THEN Return(r, rq, disk, 200, "") /\ s3' = s3
                ELSE /\ Return(r, rq, disk, 500, "Couldn't update video metadata")
                     /\ s3' = [o \in (DOMAIN s3) \ {<<cfg.s3Bucket, req[r].key>>} |-> s3[o]]
    /\ UNCHANGED <<thumb, assets, cfg, lastRead>>

\* lines 134-143: the record is updated and returned.  req[r].update: the
\* calls of UpdateVideo and how each ended
UpdateVideo(r) ==
    /\ req[r].pc = "uploaded"
    /\ LET video == [req[r].video EXCEPT !.VideoURL = Ptr(vidUrl(cfg, req[r].key))] IN
       \E ok \in BOOLEAN :
         LET rq == [req[r] EXCEPT !.video = video,
                                  !.update = @ \o <<[video |-> video, ok |-> ok]>>]
         IN  /\ db' = dbUpdateVideo(db, video, ok)
             /\ IF ok THEN Return(r, rq, disk, 200, "")
                ELSE Return(r, rq, disk, 500, "Couldn't update video metadata")
    /\ UNCHANGED <<thumb, assets, cfg, s3, lastRead>>

----------------------------------------------------------------------------
(* The read path *)

NoRead == [called |-> FALSE, arg |-> NoVideo, video |-> NoVideo,
           err |-> FALSE, presign |-> <<>>]

\* ReadVideo with the returned video written back to the store
ReadVideoWriteBack ==
    /\ \E id \in DOMAIN db, signOk \in BOOLEAN :
         LET got == dbVideoToSignedVideo(db[id], signOk) IN
         /\ lastRead' = [called |-> TRUE, arg |-> db[id], video |-> got.video,
                         err |-> got.err, presign |-> got.presign]
         /\ db' = [db EXCEPT ![id] = got.video]
    /\ UNCHANGED <<thumb, assets, cfg, disk, s3, req>>

\* a caller reads record id and passes it to dbVideoToSignedVideo
ReadVideo ==
    /\ \E id \in DOMAIN db, signOk \in BOOLEAN :
         LET got == dbVideoToSignedVideo(db[id], signOk) IN
         lastRead' = [called |-> TRUE, arg |-> db[id], video |-> got.video,
                      err |-> got.err, presign |-> got.presign]
    /\ UNCHANGED <<thumb, assets, cfg, db, disk, s3, req>>

----------------------------------------------------------------------------
(* handlerUploadThumbnail *)

\* the alphabet of base64.RawURLEncoding
Base64URL ==
    <<"A", "B", "C", "D", "E", "F", "G", "H", "I", "J", "K", "L", "M", "N", "O", "P",
      "Q", "R", "S", "T", "U", "V", "W", "X", "Y", "Z", "a", "b", "c", "d", "e", "f",
      "g", "h", "i", "j", "k", "l", "m", "n", "o", "p", "q", "r", "s", "t", "u", "v",
      "w", "x", "y", "z", "0", "1", "2", "3", "4", "5", "6", "7", "8", "9", "-", "_">>

\* base64.RawURLEncoding.EncodeToString: four characters for three bytes,
\* two for a last byte alone, three for a last pair, no padding
RECURSIVE Base64RawURLEncodeToString(_)
Base64RawURLEncodeToString(bytes) ==
    IF Len(bytes) = 0 THEN <<>>
    ELSE IF Len(bytes) = 1
    THEN <<Base64URL[(bytes[1] \div 4) + 1], Base64URL[((bytes[1] % 4) * 16) + 1]>>
    ELSE IF Len(bytes) = 2
    THEN <<Base64URL[(bytes[1] \div 4) + 1],
           Base64URL[((bytes[1] % 4) * 16 + bytes[2] \div 16) + 1],
           Base64URL[((bytes[2] % 16) * 4) + 1]>>
    ELSE <<Base64URL[(bytes[1] \div 4) + 1],
           Base64URL[((bytes[1] % 4) * 16 + bytes[2] \div 16) + 1],
           Base64URL[((bytes[2] % 16) * 4 + bytes[3] \div 64) + 1],
           Base64URL[(bytes[3] % 64) + 1]>>
         \o Base64RawURLEncodeToString(SubSeq(bytes, 4, Len(bytes)))

\* getAssetPath: the name and the extension of the media type
getAssetPath(base64File, mediaType) ==
    base64File \o <<".", IF mediaType = "image/png" THEN "png" ELSE "jpeg">>

\* cfg.getAssetDiskPath: the path under cfg.assetsRoot
getAssetDiskPath(assetPath) == <<"assets", "/">> \o assetPath

\* cfg.getAssetURL: the URL the assets directory is served at
getAssetURL(assetPath) == <<"http://localhost/assets", "/">> \o assetPath

\* the Content-Type of the "thumbnail" part
ThumbContentTypes == {"image/png", "image/jpeg", "video/mp4", ""}

\* the bytes of the "thumbnail" part
ThumbUploads == {<<>>, <<137, 80, 78, 71>>}

\* multiPartFile: the bytes of the part and the offset the next read starts at
MultipartFile(data, offset) == [data |-> data, offset |-> offset]

\* a read to the end of f (io.ReadAll, io.Copy): the bytes read and f after it
ReadToEnd(f) ==
    [bytes |-> SubSeq(f.data, f.offset + 1, Len(f.data)),
     file  |-> MultipartFile(f.data, Len(f.data))]

NewThumb ==
    [pc |-> "start", pathValue |-> "", videoId |-> "", userId |-> "",
     video |-> NoVideo, contentType |-> "unset", mediaType |-> "",
     multiPartFile |-> MultipartFile(<<>>, 0), assetPath |-> <<>>,
     update |-> <<>>, status |-> 0, msg |-> "", resp |-> <<>>]

\* respondWithError / respondWithJSON followed by return
ThumbReturn(t, code, msg) ==
    thumb' = [t EXCEPT !.pc = "done", !.status = code, !.msg = msg,
                       !.resp = @ \o <<code>>]

\* lines 17-34: the video id and the caller
ThumbAuthenticate ==
    /\ thumb.pc = "start"
    /\ \E videoIDString \in VideoIdStrings, header \in Tokens :
         LET videoID == uuidParse(videoIDString)
             token   == GetBearerToken(header)
             user    == ValidateJWT(token.token)
             t       == [thumb EXCEPT !.pathValue = videoIDString]
         IN  IF videoID.err THEN ThumbReturn(t, 400, "Invalid ID")
             ELSE IF token.err THEN ThumbReturn(t, 401, "Couldn't find JWT")
             ELSE IF user.err THEN ThumbReturn(t, 401, "Couldn't validate JWT")
             ELSE thumb' = [t EXCEPT !.pc = "authed", !.videoId = videoID.id,
                                     !.userId = user.userId]
    /\ UNCHANGED <<cfg, db, disk, s3, req, lastRead, assets>>

\* lines 38-52: the uploaded part, read to its end by io.ReadAll
ThumbFormFile ==
    /\ thumb.pc = "authed"
    /\ \/ ThumbReturn(thumb, 400, "Couldn't get thumbnail file")
       \/ \E contentType \in ThumbContentTypes, data \in ThumbUploads :
            LET t == [thumb EXCEPT !.contentType = contentType,
                                   !.multiPartFile = MultipartFile(data, 0)]
            IN  \/ ThumbReturn(t, 500, "Couldn't read thumbnail file")
                \/ thumb' = [t EXCEPT !.pc = "read",
                                      !.multiPartFile = ReadToEnd(t.multiPartFile).file]
    /\ UNCHANGED <<cfg, db, disk, s3, req, lastRead, assets>>

\* ThumbGetVideo without the comparison of video.UserID and userID
ThumbGetVideoAnyCaller ==
    /\ thumb.pc = "read"
    /\ LET got == dbGetVideo(db, thumb.videoId) IN
       IF got.err THEN ThumbReturn(thumb, 500, "Couldn't get video metadata")
       ELSE thumb' = [thumb EXCEPT !.pc = "loaded", !.video = got.video]
    /\ UNCHANGED <<cfg, db, disk, s3, req, lastRead, assets>>

\* lines 54-63: the record and its owner
ThumbGetVideo ==
    /\ thumb.pc = "read"
    /\ LET got == dbGetVideo(db, thumb.videoId) IN
       IF got.err THEN ThumbReturn(thumb, 500, "Couldn't get video metadata")
       ELSE IF got.video.UserID # thumb.userId
       THEN ThumbReturn([thumb EXCEPT !.video = got.video], 401,
                        "You are not allowed to upload a thumbnail for this video")
       ELSE thumb' = [thumb EXCEPT !.pc = "loaded", !.video = got.video]
    /\ UNCHANGED <<cfg, db, disk, s3, req, lastRead, assets>>

\* lines 65-74: the media type of the part
ThumbMediaType ==
    /\ thumb.pc = "loaded"
    /\ LET parsed == mimeParseMediaType(thumb.contentType)
           t == [thumb EXCEPT !.mediaType = parsed.mediatype]
       IN  IF parsed.err THEN ThumbReturn(t, 400, "Invalid media type")
           ELSE IF parsed.mediatype # "image/jpeg" /\ parsed.mediatype # "image/png"
           THEN ThumbReturn(t, 400,
                            "Unsupported media type. Only JPEG and PNG are allowed")
           ELSE thumb' = [t EXCEPT !.pc = "typed"]
    /\ UNCHANGED <<cfg, db, disk, s3, req, lastRead, assets>>

\* lines 76-91: the asset file is created and what is left to read of the
\* part is copied into it
ThumbSaveAsset ==
    /\ thumb.pc = "typed"
    /\ \E randBytes \in RandSources :
         LET base64File    == Base64RawURLEncodeToString(randBytes)
             assetPath     == getAssetPath(base64File, thumb.mediaType)
             assetDiskPath == getAssetDiskPath(assetPath)
             copied        == ReadToEnd(thumb.multiPartFile)
             t == [thumb EXCEPT !.assetPath = assetPath]
         IN  \/ /\ ThumbReturn(t, 500, "Unable to create file on server")
                /\ assets' = assets
             \/ /\ ThumbReturn(t, 500, "Error saving file")
                /\ assets' = (assetDiskPath :> <<>>) @@ assets
             \/ /\ thumb' = [t EXCEPT !.pc = "saved", !.multiPartFile = copied.file]
                /\ assets' = (assetDiskPath :> copied.bytes) @@ assets
    /\ UNCHANGED <<cfg, db, disk, s3, req, lastRead>>

\* lines 93-102: the record is updated and returned
ThumbUpdateVideo ==
    /\ thumb.pc = "saved"
    /\ LET video == [thumb.video EXCEPT
                        !.ThumbnailURL = Ptr(getAssetURL(thumb.assetPath))] IN
       \E ok \in BOOLEAN :
         LET t == [thumb EXCEPT !.video = video,
                                !.update = @ \o <<[video |-> video, ok |-> ok]>>]
         IN  /\ db' = dbUpdateVideo(db, video, ok)
             /\ IF ok THEN ThumbReturn(t, 200, "")
                ELSE ThumbReturn(t, 500, "Couldn't update video metadata")
    /\ UNCHANGED <<cfg, disk, s3, req, lastRead, assets>>

\* one step of the run of handlerUploadThumbnail
ThumbHandler ==
    \/ ThumbAuthenticate
    \/ ThumbFormFile
    \/ ThumbGetVideo
    \/ ThumbMediaType
    \/ ThumbSaveAsset
    \/ ThumbUpdateVideo

----------------------------------------------------------------------------

\* the state before any run; refs: the reference fields the store may hold
InitWith(refs) ==
    /\ cfg = Config
    /\ db \in [VideoIDs -> {Video(id, "u1", ref, NilStr) : id \in VideoIDs, ref \in refs}]
    /\ \A id \in VideoIDs : db[id].ID = id
    /\ disk = EmptyMap
    /\ s3 = EmptyMap
    /\ req = [r \in Reqs |-> NewReq]
    /\ lastRead = NoRead
    /\ thumb = NewThumb
    /\ assets = EmptyMap

\* one step of run r of handlerUploadVideo
Handler(r, uploads) ==
    \/ Authenticate(r)
    \/ GetVideo(r)
    \/ FormFile(r)
    \/ CreateTemp(r)
    \/ CopyUpload(r, uploads)
    \/ ProcessVideo(r)
    \/ ProbeVideo(r)
    \/ DeriveKey(r)
    \/ PutObject(r)
    \/ UpdateVideo(r)

(* The runs of handlerUploadVideo, on a record with no reference or a
   reference of an earlier shape *)
Init == InitWith({NilStr, Ptr(<<"legacy">>)})

Next == \E r \in Reqs : Handler(r, Uploads)

Spec == Init /\ [][Next]_vars

(* One run of handlerUploadVideo and the read path, on a store that holds
   reference fields of every shape *)
InitRead == InitWith(InitialRefs)

NextRead ==
    \/ Handler(1, UploadsOne)
    \/ ReadVideo

SpecRead == InitRead /\ [][NextRead]_vars

\* the client of run r goes away while the staged file exists: the context
\* of the request is cancelled.  The upload was read in full by FormFile, and
\* ffmpeg and ffprobe are started without the context, so that only
\* PutObject, which is given r.Context(), sees it.
Abort(r) ==
    /\ req[r].pc \in {"created", "staged", "processed", "probed", "opened"}
    /\ ~req[r].aborted
    /\ req' = [req EXCEPT ![r].aborted = TRUE]
    /\ UNCHANGED <<thumb, assets, cfg, db, disk, s3, lastRead>>

(* The runs of handlerUploadVideo with clients that may go away *)
NextAbort ==
    \/ \E r \in Reqs : Handler(r, Uploads)
    \/ \E r \in Reqs : Abort(r)

SpecAbort == Init /\ [][NextAbort]_vars

\* the upload of the run of handlerUploadVideo beside a thumbnail upload
UploadsPlain == {<<Stream(1920, 1080)>>}

(* One run of handlerUploadVideo and one of handlerUploadThumbnail, their
   steps interleaved *)
NextThumb ==
    \/ Handler(1, UploadsPlain)
    \/ ThumbHandler

SpecThumb == Init /\ [][NextThumb]_vars

----------------------------------------------------------------------------
(* Properties *)

\* the staged file and the transcoder's output file of run r
FilesOf(r) == {TempName(r), TempName(r) \o <<".processing">>}

\* the number of commas in s
Commas(s) == Cardinality({i \in 1..Len(s) : s[i] = ","})

\* run r got through Put and UpdateVideo and answered 200
Ingested(r) ==
    /\ req[r].status = 200
    /\ Len(req[r].put) = 1 /\ req[r].put[1].ok
    /\ Len(req[r].update) = 1 /\ req[r].update[1].ok

\* C1: once a run of handlerUploadVideo has returned, at whichever step, no
\* staged file and no transcoder output file of that run is left on disk.
C1_NoTempFileAfterReturn ==
    \A r \in Reqs : req[r].pc = "done" => FilesOf(r) \cap DOMAIN disk = {}

\* a run whose transcoder failed having begun to write its output
C1_PartialOutputRun ==
    \E r \in Reqs : req[r].pc = "done" /\ req[r].ffmpeg = "fail_partial"

\* C2: after a successful ingestion the reference field written to the record
\* is exactly <bucket>,<key>: the configured bucket, a comma, and the key
\* given to Put in that run.
C2_ReferenceIsBucketCommaKey ==
    \A r \in Reqs :
        Ingested(r) =>
            /\ req[r].put[1].input.Bucket = cfg.s3Bucket
            /\ req[r].update[1].video.VideoURL =
                   Ptr(cfg.s3Bucket \o <<",">> \o req[r].put[1].input.Key)

C2_SomeIngestion == \E r \in Reqs : Ingested(r)

\* C3: when the read path is given a record whose reference field a
\* successful ingestion wrote, it asks for a signed URL for exactly the bucket
\* and key of that ingestion's Put, and the record it returns without an
\* error carries that signed URL.
C3_ReadDecodesWhatIngestionWrote ==
    \A r \in Reqs :
        (/\ Ingested(r)
         /\ lastRead.called
         /\ lastRead.arg.VideoURL = req[r].update[1].video.VideoURL)
        => /\ lastRead.presign = <<[bucket  |-> req[r].put[1].input.Bucket,
                                    key     |-> req[r].put[1].input.Key,
                                    expires |-> "3m"]>>
           /\ ~lastRead.err =>
                  lastRead.video.VideoURL =
                      Ptr(PresignedURL(req[r].put[1].input.Bucket,
                                       req[r].put[1].input.Key, "3m"))

C3_ReadAfterIngestion ==
    \E r \in Reqs :
        /\ Ingested(r)
        /\ lastRead.called
        /\ lastRead.arg.VideoURL = req[r].update[1].video.VideoURL

\* C4: given a record whose reference field is absent or holds zero commas or
\* more than one, dbVideoToSignedVideo returns the record as it was, returns
\* no error and asks for no signed URL.
C4_NotAReferencePassedThrough ==
    (/\ lastRead.called
     /\ \/ lastRead.arg.VideoURL.nil
        \/ Commas(lastRead.arg.VideoURL.val) # 1)
    => /\ lastRead.video = lastRead.arg
       /\ ~lastRead.err
       /\ lastRead.presign = <<>>

C4_ReadOfManyCommas ==
    /\ lastRead.called
    /\ ~lastRead.arg.VideoURL.nil
    /\ Commas(lastRead.arg.VideoURL.val) > 1
    /\ lastRead.video = lastRead.arg

\* the field holds one comma, with nothing before it or nothing after it
EmptyPart(ref) ==
    /\ ~ref.nil
    /\ Commas(ref.val) = 1
    /\ (ref.val[1] = "," \/ ref.val[Len(ref.val)] = ",")

\* C5: a reference field with one comma and an empty bucket part or an empty
\* key part is passed through unchanged, with no error and no signed-URL
\* request; a signed URL is requested only for a non-empty bucket and a
\* non-empty key.
C5_EmptyPartIsNotAReference ==
    lastRead.called =>
        /\ EmptyPart(lastRead.arg.VideoURL) =>
               /\ lastRead.video = lastRead.arg
               /\ ~lastRead.err
               /\ lastRead.presign = <<>>
        /\ \A i \in 1..Len(lastRead.presign) :
               lastRead.presign[i].bucket # <<>> /\ lastRead.presign[i].key # <<>>

C5_ReadOfEmptyPart == lastRead.called /\ EmptyPart(lastRead.arg.VideoURL)

\* the declared Content-Type is not the media type video/mp4
NotMp4(contentType) ==
    LET parsed == mimeParseMediaType(contentType) IN
    parsed.err \/ parsed.mediatype # "video/mp4"

\* C6: a run whose upload declares a media type other than video/mp4 is
\* answered 400 with no temporary file created, and neither the transcoder,
\* the prober, Put nor UpdateVideo invoked.
C6_WrongMediaTypeStopsBeforeStaging ==
    \A r \in Reqs :
        (req[r].contentType # "unset" /\ NotMp4(req[r].contentType)) =>
            /\ req[r].pc = "done" /\ req[r].status = 400
            /\ req[r].tempFile = <<>>
            /\ FilesOf(r) \cap DOMAIN disk = {}
            /\ req[r].ffmpeg = "none"
            /\ req[r].probe = "none"
            /\ req[r].put = <<>>
            /\ req[r].update = <<>>

C6_WebmRejected ==
    \E r \in Reqs :
        /\ req[r].contentType = "video/webm"
        /\ req[r].pc = "done"
        /\ req[r].status = 400

\* |x|
Abs(x) == IF x < 0 THEN -x ELSE x

\* the orientation of width/height in exact arithmetic:
\* |w/h - 16/9| <= 1/100 iff 100 * |9w - 16h| <= 9h, and
\* |w/h - 9/16| <= 1/100 iff 100 * |16w - 9h| <= 16h
ExactOrientation(w, h) ==
    IF 100 * Abs(9 * w - 16 * h) <= 9 * h THEN "landscape"
    ELSE IF 100 * Abs(16 * w - 9 * h) <= 16 * h THEN "portrait"
    ELSE "other"

\* C7: for integer width > 0 and height > 0 the prefix of the storage key is
\* landscape exactly when width/height is within 0.01 of 16/9, portrait
\* exactly when it is within 0.01 of 9/16, and other for every other ratio.
C7_PrefixIsExactOrientation ==
    \A r \in Reqs :
        (/\ req[r].key # <<>>
         /\ req[r].upload[1].Width > 0
         /\ req[r].upload[1].Height > 0)
        => req[r].key[1] = ExactOrientation(req[r].upload[1].Width,
                                            req[r].upload[1].Height)

\* the named geometries, as the code classifies them
C7_Scenarios ==
    /\ aspectRatioPrefix(classifyRatio(1920, 1080)) = "landscape"
    /\ aspectRatioPrefix(classifyRatio(1080, 1920)) = "portrait"
    /\ aspectRatioPrefix(classifyRatio(1000, 1000)) = "other"
    /\ aspectRatioPrefix(classifyRatio(16099, 9000)) = "other"

\* the prober fails on the file of run r: ffprobe cannot run, its output does
\* not parse, it lists no stream, or the first stream has a zero width or height
ProbeFails(r) ==
    /\ req[r].probe # "none"
    /\ \/ req[r].probe \in {"exec_fail", "bad_json"}
       \/ Len(req[r].upload) = 0
       \/ req[r].upload[1].Width = 0
       \/ req[r].upload[1].Height = 0

\* C8: a run in which the prober fails is answered 500, calls neither Put nor
\* UpdateVideo, and its step leaves the object store and the record as they were.
C8_ProbeFailureStopsTheRun ==
    /\ [](\A r \in Reqs :
            ProbeFails(r) =>
                /\ req[r].pc = "done" /\ req[r].status = 500
                /\ req[r].put = <<>>
                /\ req[r].update = <<>>)
    /\ [][\A r \in Reqs :
            (req[r].probe = "none" /\ ProbeFails(r)') => (db' = db /\ s3' = s3)]_vars

C8_NoStreamsRun ==
    \E r \in Reqs :
        /\ req[r].probe = "ok"
        /\ Len(req[r].upload) = 0
        /\ req[r].pc = "done"

\* Put succeeded and UpdateVideo failed in run r
PersistFailed(r) ==
    /\ Len(req[r].put) = 1 /\ req[r].put[1].ok
    /\ Len(req[r].update) = 1 /\ ~req[r].update[1].ok

\* C9: when Put succeeds and the record update fails, the run is answered
\* with an error, the object stays in the store under the derived key, and
\* the failing step changes neither the record nor the object store (no
\* compensating delete).
C9_PersistFailureLeavesObject ==
    /\ [](\A r \in Reqs :
            PersistFailed(r) =>
                /\ req[r].pc = "done" /\ req[r].status = 500
                /\ req[r].put[1].input.Key = req[r].key
                /\ <<cfg.s3Bucket, req[r].key>> \in DOMAIN s3
                /\ s3[<<cfg.s3Bucket, req[r].key>>].Body.kind = "faststart")
    /\ [][\A r \in Reqs :
            (~PersistFailed(r) /\ PersistFailed(r)') => (db' = db /\ s3' = s3)]_vars

C9_PersistFailedRun == \E r \in Reqs : PersistFailed(r)


\* the field holds a signed URL
IsSignedURL(ref) == ~ref.nil /\ ref.val # <<>> /\ ref.val[1] = "https://"

\* C11: the read path never writes to the metadata store: a call of
\* dbVideoToSignedVideo leaves every record as it was, the reference field a
\* successful ingestion wrote stays in the record, and no record ever holds a
\* signed URL.
C11_ReadPathWritesNothing ==
    /\ [](\A id \in DOMAIN db : ~IsSignedURL(db[id].VideoURL))
    /\ [](\A r \in Reqs :
            Ingested(r) =>
                db[req[r].videoId].VideoURL = req[r].update[1].video.VideoURL)
    /\ [][lastRead' # lastRead => db' = db]_vars

C11_SignedRead ==
    /\ lastRead.called
    /\ ~lastRead.err
    /\ IsSignedURL(lastRead.video.VideoURL)
    /\ \E id \in DOMAIN db : db[id] = lastRead.arg


\* the steps of handlerUploadVideo in the order of its code: the position a
\* run is at before each step
StepOrder ==
    <<"start", "authed", "loaded", "typed", "created", "staged", "processed",
      "probed", "opened", "uploaded", "done">>

\* the place of pc in StepOrder
StepRank(pc) == CHOOSE i \in 1..Len(StepOrder) : StepOrder[i] = pc

\* the processed file of run r as the transcoder wrote it
ProcessedFile(r) == File("faststart", req[r].upload)

\* C13: a run goes through its steps only in the order of StepOrder, one
\* step at a time or straight to its end on a failure, and never leaves its
\* end; the prober runs only on the output of a transcoder that succeeded,
\* the Put is issued only after a probe that succeeded and carries the
\* processed file, never the staged upload, the record is updated only after
\* a Put that succeeded, and 200 is answered only after an update that
\* succeeded; after a failed step no later step has run.
C13_StepsInOrder ==
    /\ [](\A r \in Reqs :
            /\ req[r].probe # "none" =>
                   /\ req[r].ffmpeg = "ok"
                   /\ req[r].processedPath = req[r].tempFile \o <<".processing">>
            /\ req[r].ffmpeg # "ok" => req[r].probe = "none"
            /\ req[r].put # <<>> =>
                   /\ req[r].probe = "ok" /\ req[r].probeErr = ""
                   /\ req[r].put[1].input.Body = ProcessedFile(r)
                   /\ req[r].put[1].input.Body # File("raw", req[r].upload)
            /\ req[r].probeErr # "" => req[r].put = <<>>
            /\ req[r].update # <<>> => req[r].put # <<>> /\ req[r].put[1].ok
            /\ (req[r].put # <<>> /\ ~req[r].put[1].ok) => req[r].update = <<>>
            /\ req[r].status = 200 => req[r].update # <<>> /\ req[r].update[1].ok
            /\ (req[r].update # <<>> /\ ~req[r].update[1].ok) => req[r].status # 200)
    /\ [][\A r \in Reqs :
            /\ req[r].pc = "done" => req'[r] = req[r]
            /\ req'[r].pc # req[r].pc =>
                   \/ req'[r].pc = "done"
                   \/ StepRank(req'[r].pc) = StepRank(req[r].pc) + 1]_vars

C13_FullRun ==
    \E r \in Reqs : Ingested(r) /\ req[r].upload # <<>>

\* C14: getVideoAspectRatio looks at the failure of the tool, then at
\* output that does not parse, then at the number of streams, then at the
\* geometry: it fails with the no-streams error exactly when the tool ran,
\* its output parsed and lists no stream; with a stream listed it fails with
\* the invalid-geometry error if the width or the height is zero and
\* otherwise returns the classification of that geometry.
C14_ProbeChecksInOrder ==
    \A r \in Reqs :
        req[r].probe # "none" =>
            LET streams == req[r].upload IN
            /\ req[r].probe = "exec_fail" => req[r].probeErr = "failed to run ffprobe"
            /\ req[r].probe = "bad_json" =>
                   req[r].probeErr = "failed to parse ffprobe output"
            /\ req[r].probeErr = "no video streams found in file"
                   <=> (req[r].probe = "ok" /\ Len(streams) = 0)
            /\ (req[r].probe = "ok" /\ Len(streams) >= 1) =>
                   IF streams[1].Width = 0 \/ streams[1].Height = 0
                   THEN req[r].probeErr = "invalid video dimensions"
                   ELSE /\ req[r].probeErr = ""
                        /\ req[r].pc # "processed"
                        /\ req[r].aspectRatio =
                               classifyRatio(streams[1].Width, streams[1].Height)

\* the tool failed on a file without streams
C14_ToolFailedOnNoStreams ==
    \E r \in Reqs :
        req[r].probe = "exec_fail" /\ req[r].upload = <<>> /\ req[r].pc = "done"

\* the caller of run r is known and is not the owner of the record asked for
NotOwner(r) ==
    /\ req[r].userId # ""
    /\ req[r].videoId \in DOMAIN db
    /\ db[req[r].videoId].UserID # req[r].userId

\* C15: a run writes no response before its end and exactly one at it.  A
\* video id that does not parse, a caller who is not the owner, and a media
\* type other than video/mp4 are answered 4xx; a failure of the transcoder,
\* of the prober, of the Put or of the record update is answered 5xx; 200 is
\* answered only when the Put and the update both succeeded; no step is
\* run twice.
C15_OneResponsePerRun ==
    \A r \in Reqs :
        /\ Len(req[r].resp) = (IF req[r].pc = "done" THEN 1 ELSE 0)
        /\ Len(req[r].put) <= 1 /\ Len(req[r].update) <= 1
        /\ req[r].pc = "done" =>
             /\ req[r].resp = <<req[r].status>>
             /\ (req[r].pathValue # "" /\ uuidParse(req[r].pathValue).err) =>
                    req[r].status \in 400..499
             /\ NotOwner(r) => req[r].status \in 400..499
             /\ (req[r].contentType # "unset" /\ NotMp4(req[r].contentType)) =>
                    req[r].status \in 400..499
             /\ req[r].ffmpeg \in {"fail_nofile", "fail_partial"} =>
                    req[r].status \in 500..599
             /\ req[r].probeErr # "" => req[r].status \in 500..599
             /\ (req[r].put # <<>> /\ ~req[r].put[1].ok) => req[r].status \in 500..599
             /\ (req[r].update # <<>> /\ ~req[r].update[1].ok) =>
                    req[r].status \in 500..599
             /\ req[r].status = 200 =>
                    /\ req[r].put # <<>> /\ req[r].put[1].ok
                    /\ req[r].update # <<>> /\ req[r].update[1].ok

C15_NotOwnerAnswered ==
    \E r \in Reqs : req[r].pc = "done" /\ NotOwner(r) /\ req[r].status = 401

\* the number of calls of os.Remove on path among calls
RemovalsOf(calls, path) == Cardinality({i \in 1..Len(calls) : calls[i] = path})

\* C16: when a run has returned, os.Remove has been called exactly once on
\* the staged file if it was registered and exactly once on the processed
\* file if it was registered, the processed file first, and neither file is
\* on disk; before the return nothing is removed.
C16_RegisteredFilesRemovedOnce ==
    \A r \in Reqs :
        /\ req[r].pc # "done" => req[r].removed = <<>>
        /\ (req[r].pc = "done" /\ req[r].tempFile # <<>>) =>
               /\ RemovalsOf(req[r].removed, req[r].tempFile) = 1
               /\ req[r].tempFile \notin DOMAIN disk
        /\ (req[r].pc = "done" /\ req[r].processedPath # <<>>) =>
               /\ RemovalsOf(req[r].removed, req[r].processedPath) = 1
               /\ req[r].processedPath \notin DOMAIN disk
               /\ req[r].removed = <<req[r].processedPath, req[r].tempFile>>

C16_BothRemoved ==
    \E r \in Reqs :
        req[r].pc = "done" /\ req[r].processedPath # <<>> /\ req[r].status = 500


\* C12: a run whose request is aborted once the staged file exists, during
\* the copy, the transcoder, the prober or the upload, has deleted its
\* temporary files as a failed run does: once it has returned none of its
\* temporary files exists.
C12_AbortedRunLeavesNoTempFile ==
    \A r \in Reqs :
        (req[r].aborted /\ req[r].pc = "done") => FilesOf(r) \cap DOMAIN disk = {}


\* the run of handlerUploadThumbnail got through UpdateVideo and answered 200
ThumbCommitted ==
    /\ thumb.status = 200
    /\ Len(thumb.update) = 1 /\ thumb.update[1].ok

\* C17: a video ingestion changes the reference field only and a thumbnail
\* upload the thumbnail field only: once an ingestion and a thumbnail upload
\* of the same record have both committed, in whichever order and however
\* their steps interleave, the record holds the thumbnail value of the one
\* and the reference of the other.
C17_FieldsOfTheOtherHandlerKept ==
    \A r \in Reqs :
        (Ingested(r) /\ ThumbCommitted /\ thumb.videoId = req[r].videoId) =>
            /\ db[thumb.videoId].ThumbnailURL = Ptr(getAssetURL(thumb.assetPath))
            /\ db[req[r].videoId].VideoURL = req[r].update[1].video.VideoURL

\* C18: after a run of handlerUploadThumbnail that answered 200 the asset
\* file holds exactly the bytes of the uploaded part.
C18_AssetHoldsUploadedBytes ==
    thumb.status = 200 =>
        /\ getAssetDiskPath(thumb.assetPath) \in DOMAIN assets
        /\ assets[getAssetDiskPath(thumb.assetPath)] = thumb.multiPartFile.data

\* the caller of the thumbnail upload is known and is not the owner of the
\* record asked for
ThumbNotOwner ==
    /\ thumb.userId # ""
    /\ thumb.videoId \in DOMAIN db
    /\ db[thumb.videoId].UserID # thumb.userId

====
